---- MODULE Spec2Model ----
(***************************************************************************)
(* Verification model of bu-build-toolkit.                                 *)
(*                                                                         *)
(* Part I  : the theme.json compiler (bin/compile-theme-json.mjs).         *)
(* Part II : the webpack configuration composer (index.js createConfig and *)
(*           config/webpack.config.js createWebpackConfig).                *)
(***************************************************************************)
EXTENDS Integers, Sequences, FiniteSets, TLC

(***************************************************************************)
(* Bounds of the model.                                                    *)
(***************************************************************************)
\* largest value a top-level key of a fragment may carry (values are 1..MaxVal)
MaxVal == 2
\* number of consecutive runs of the compiler that are followed
MaxRuns == 2

(***************************************************************************)
(* Part I. The theme.json compiler.                                        *)
(***************************************************************************)
VARIABLES
    dirExists,   \* fs.existsSync( sourceDir )
    files,       \* files[role][ext] : the fragment files of src/theme-json
    outFile,     \* theme.json in the theme root
    pc,          \* position of the compiler process
    config,      \* const config   (line 126)
    settings,    \* const settings (line 127)
    styles,      \* const styles   (line 128)
    exitCode,    \* exit status of the process (meaningful when pc = "exited")
    console,     \* what the run printed, in order
    imported,    \* the import() calls of the run, in order
    theme,       \* const theme (line 142)
    writes,      \* number of fs.writeFileSync calls of the run
    outBefore,   \* theme.json as the run found it
    run,         \* number of the current run
    prev         \* the previous run: its fragment files and its outcome

compilerVars == <<dirExists, files, outFile, pc, config, settings, styles,
                  exitCode, console, imported, theme, writes, outBefore, run, prev>>

\* the state of the configuration composer (Part II)
VARIABLES
    defaultConfig,   \* the configuration of @wordpress/scripts the composer starts from
    calledModule,    \* the module whose createConfig the theme called
    callOptions,     \* the options the theme's webpack.config.js passed
    configs,         \* the array createConfig returned (empty before the call)
    cwd,             \* process.cwd(), the working directory of the webpack process
    interactions,    \* what the last call asked of the process and the file system
    prevConfigs      \* the array an earlier call with the same arguments returned

composerVars == <<defaultConfig, calledModule, callOptions, configs, cwd,
                  interactions, prevConfigs>>

\* the state of the bu-build command line (Part III)
VARIABLES
    command,          \* process.argv[ 2 ]
    args,             \* process.argv.slice( 3 )
    themeJsonSrcDir,  \* fs.existsSync( <cwd>/src/theme-json )
    themePackage,     \* the scripts of the theme's package.json
    cliPc,            \* where main() is: "header", "main", "handler", "steps", "settled", "exited"
    handler,          \* what commands[ command ] gave main() to call
    tasks,            \* the tasks npm-run-all has not started yet
    parallel,         \* npm-run-all runs the tasks with --parallel
    spawned,          \* the child processes started so far, in order
    stderr,           \* the console.error lines of main()
    outcome,          \* how main() went: "pending", "help", "unknown", "resolved", "rejected"
    status,           \* exit status of the bu-build process
    inheritedEnv,     \* BU_BUILD_HEADER_SHOWN in the environment bu-build was started with
    processEnv,       \* process.env.BU_BUILD_HEADER_SHOWN of the bu-build process
    header,           \* displayHeader() of this process: "pending", "displayed", "skipped"
    events,           \* the events the child of the handler's runCommand call has emitted
    promise           \* the promise of that call: "none", "pending", "resolved", "rejected"

cliVars == <<command, args, themeJsonSrcDir, themePackage, cliPc, handler, tasks,
             parallel, spawned, stderr, outcome, status,
             inheritedEnv, processEnv, header, events, promise>>

\* the state of the version update (Part IV)
VARIABLES
    packageJson,      \* package.json in the working directory
    styleCss,         \* style.css: its content, if the file exists
    themeCss,         \* build/css/theme.css: its content, if the file exists
    originalStyleCss, \* style.css before the first run
    originalThemeCss, \* build/css/theme.css before the first run
    versionPc,        \* where main() of update-version is
    cssHeader,        \* const cssHeader of main()
    versionLog,       \* what the run printed, in order
    versionStatus,    \* exit status of the run
    versionRun        \* number of runs that have ended with status 0

versionVars == <<packageJson, styleCss, themeCss, originalStyleCss, originalThemeCss,
                 versionPc, cssHeader, versionLog, versionStatus, versionRun>>

vars == <<compilerVars, composerVars, cliVars, versionVars>>

\* the three fragment roles, in the order of lines 126-128
Roles == <<"config", "settings", "styles">>

\* top-level keys used by the fragments of the model
Keys == {"version", "settings"}

\* a property of an object literal
Pairs == [k : Keys, v : 1..MaxVal]

\* the default exports a fragment file of the model may have: an object is
\* the sequence of its own properties in insertion order; the fragments of
\* the model are the empty object and the objects with one top-level key
Docs == {<<>>} \cup {<<p>> : p \in Pairs}

\* a fragment file: missing, a module whose import() rejects, a module with
\* no (or a falsy) default export, or a module that exports an object
Absent    == [kind |-> "absent",    doc |-> <<>>]
Throws    == [kind |-> "throws",    doc |-> <<>>]
NoDefault == [kind |-> "nodefault", doc |-> <<>>]
Exports(d) == [kind |-> "object", doc |-> d]

FileStates == {Absent, Throws, NoDefault} \cup {Exports(d) : d \in Docs}

\* values of the locals config, settings, styles
JsNull == [isNull |-> TRUE, doc |-> <<>>]
JsObject(d) == [isNull |-> FALSE, doc |-> d]

\* the two extensions tried in the other order
extensions_JsFirst == <<".js", ".mjs">>

\* const extensions = [ '.mjs', '.js' ]
extensions == <<".mjs", ".js">>

\* const filePath = basePath + ext
filePath(role, ext) == [role |-> role, ext |-> ext]

\* module.default || {}
defaultOrEmpty(f) == IF f.kind = "nodefault" THEN <<>> ELSE f.doc

\* the loop of tryImport from extension number i on
RECURSIVE tryImportFrom(_, _, _)
tryImportFrom(fs, role, i) ==
    IF i > Len(extensions)
    THEN [ret |-> JsNull, imports |-> <<>>, errors |-> <<>>]
    ELSE LET ext == extensions[i]
             f   == fs[role][ext]
         IN  IF f.kind # "absent"
             THEN IF f.kind = "throws"
                  THEN [ret     |-> JsNull,
                        imports |-> <<filePath(role, ext)>>,
                        errors  |-> <<[stream |-> "stderr", msg |-> "Error importing",
                                       arg |-> filePath(role, ext)]>>]
                  ELSE [ret     |-> JsObject(defaultOrEmpty(f)),
                        imports |-> <<filePath(role, ext)>>,
                        errors  |-> <<>>]
             ELSE tryImportFrom(fs, role, i + 1)

tryImport(fs, role) == tryImportFrom(fs, role, 1)

\* ( x || {} )
orEmpty(x) == IF x.isNull THEN <<>> ELSE x.doc

\* assignment of one property: an existing key keeps its position
RECURSIVE setProperty(_, _)
setProperty(obj, p) ==
    IF obj = <<>> THEN <<p>>
    ELSE IF Head(obj).k = p.k THEN <<p>> \o Tail(obj)
    ELSE <<Head(obj)>> \o setProperty(Tail(obj), p)

\* { ...target, ...source }
RECURSIVE spread(_, _)
spread(target, source) ==
    IF source = <<>> THEN target
    ELSE spread(setProperty(target, Head(source)), Tail(source))

\* the merge with the spreads in the opposite order: the earlier role wins
mergeTheme_StylesFirst(c, s, st) ==
    spread(spread(spread(<<>>, orEmpty(st)), orEmpty(s)), orEmpty(c))

\* const theme = { ...( config || {} ), ...( settings || {} ), ...( styles || {} ) }
mergeTheme(c, s, st) ==
    spread(spread(spread(<<>>, orEmpty(c)), orEmpty(s)), orEmpty(st))

\* one line of the text of theme.json
Line(indent, tok, k, v) == [indent |-> indent, tok |-> tok, k |-> k, v |-> v]

\* JSON.stringify( theme, null, 2 )
stringify(obj) ==
    IF obj = <<>> THEN <<Line(0, "{}", "", 0)>>
    ELSE <<Line(0, "{", "", 0)>>
         \o [i \in 1..Len(obj) |->
                Line(2, IF i < Len(obj) THEN "pair," ELSE "pair",
                     obj[i].k, obj[i].v)]
         \o <<Line(0, "}", "", 0)>>

\* the write as an append to what theme.json already holds
writeFileSync_Append(old, json) == [exists |-> TRUE, bytes |-> old.bytes \o json]

\* fs.writeFileSync( outputFile, json )
writeFileSync(old, json) == [exists |-> TRUE, bytes |-> json]

\* a theme.json left by something else before the first run
StaleFile == [exists |-> TRUE, bytes |-> <<Line(0, "stale", "", 0)>>]
NoFile    == [exists |-> FALSE, bytes |-> <<>>]

NoPrev == [valid |-> FALSE, files |-> <<>>, dirExists |-> FALSE, exitCode |-> 0,
           writes |-> 0, out |-> NoFile]

PresentCount(fs) ==
    Cardinality({p \in {"config", "settings", "styles"} \X {".mjs", ".js"} :
                    fs[p[1]][p[2]].kind # "absent"})

\* the directories of the model: as many fragment files as there are roles,
\* at most, spread over the six file names in every way
FileSystems ==
    {fs \in [{"config", "settings", "styles"} -> [{".mjs", ".js"} -> FileStates]] :
        PresentCount(fs) <= Len(Roles)}

NoFragments ==
    [r \in {"config", "settings", "styles"} |-> [e \in {".mjs", ".js"} |-> Absent]]

\* the check of the source directory left out
skipCompilation_Never(exists) == FALSE

\* ! fs.existsSync( sourceDir )
skipCompilation(exists) == ~exists

\* the check written against undefined, which tryImport never returns
noSourceFiles_Undefined(c, s, st) == FALSE

\* the check written with || in place of &&
noSourceFiles_Any(c, s, st) == c.isNull \/ s.isNull \/ st.isNull

\* config === null && settings === null && styles === null
noSourceFiles(c, s, st) == c.isNull /\ s.isNull /\ st.isNull

Log(stream, msg) == [stream |-> stream, msg |-> msg, arg |-> filePath("", "")]

\* compileThemeJson, lines 112-124: the check of the source directory
Start ==
    /\ pc = "start"
    /\ IF skipCompilation(dirExists)
       THEN /\ console' = Append(console, Log("stdout", "No src/theme-json directory found"))
            /\ pc' = "exited"
            /\ exitCode' = 0
       ELSE /\ pc' = "importConfig"
            /\ UNCHANGED <<console, exitCode>>
    /\ UNCHANGED <<dirExists, files, outFile, outBefore, config, settings, styles,
                   theme, imported, writes, run, prev,
                   composerVars, cliVars, versionVars>>

\* const config = await tryImport( configPath )
ImportConfig ==
    /\ pc = "importConfig"
    /\ LET r == tryImport(files, "config")
       IN  /\ config' = r.ret
           /\ console' = console \o r.errors
           /\ imported' = imported \o r.imports
    /\ pc' = "importSettings"
    /\ UNCHANGED <<dirExists, files, outFile, outBefore, settings, styles, theme,
                   exitCode, writes, run, prev,
                   composerVars, cliVars, versionVars>>

\* const settings = await tryImport( settingsPath )
ImportSettings ==
    /\ pc = "importSettings"
    /\ LET r == tryImport(files, "settings")
       IN  /\ settings' = r.ret
           /\ console' = console \o r.errors
           /\ imported' = imported \o r.imports
    /\ pc' = "importStyles"
    /\ UNCHANGED <<dirExists, files, outFile, outBefore, config, styles, theme,
                   exitCode, writes, run, prev,
                   composerVars, cliVars, versionVars>>

\* const styles = await tryImport( stylesPath )
ImportStyles ==
    /\ pc = "importStyles"
    /\ LET r == tryImport(files, "styles")
       IN  /\ styles' = r.ret
           /\ console' = console \o r.errors
           /\ imported' = imported \o r.imports
    /\ pc' = "merge"
    /\ UNCHANGED <<dirExists, files, outFile, outBefore, config, settings, theme,
                   exitCode, writes, run, prev,
                   composerVars, cliVars, versionVars>>

\* the merge and the write done while the styles fragment is still to be
\* loaded
MergeAndWrite_BeforeStyles ==
    /\ pc = "importStyles"
    /\ ~noSourceFiles(config, settings, styles)
    /\ theme' = mergeTheme(config, settings, styles)
    /\ outFile' = writeFileSync(outFile, stringify(theme'))
    /\ writes' = writes + 1
    /\ console' = Append(console, Log("stdout", "theme.json compiled successfully"))
    /\ exitCode' = 0
    /\ pc' = "importStyles"
    /\ UNCHANGED <<dirExists, files, outBefore, config, settings, styles, imported,
                   run, prev,
                   composerVars, cliVars, versionVars>>

\* compileThemeJson, lines 130-157: the check, the merge, the write
MergeAndWrite ==
    /\ pc = "merge"
    /\ IF noSourceFiles(config, settings, styles)
       THEN /\ console' = console \o <<Log("stderr", "No theme.json source files found"),
                                       Log("stderr", "Expected: config.mjs, settings.mjs, styles.mjs")>>
            /\ exitCode' = 1
            /\ UNCHANGED <<theme, outFile, writes>>
       ELSE /\ theme' = mergeTheme(config, settings, styles)
            /\ outFile' = writeFileSync(outFile, stringify(theme'))
            /\ writes' = writes + 1
            /\ console' = Append(console, Log("stdout", "theme.json compiled successfully"))
            /\ exitCode' = 0
    /\ pc' = "exited"
    /\ UNCHANGED <<dirExists, files, outBefore, config, settings, styles, imported,
                   run, prev,
                   composerVars, cliVars, versionVars>>

\* what a finished run leaves for the comparison with the next one
Snapshot ==
    [valid |-> TRUE, files |-> files, dirExists |-> dirExists, exitCode |-> exitCode,
     writes |-> writes, out |-> outFile]

\* a new process: nothing of the previous one is kept but the file system
NewProcess ==
    /\ prev' = Snapshot
    /\ run' = run + 1
    /\ pc' = "start"
    /\ config' = JsNull
    /\ settings' = JsNull
    /\ styles' = JsNull
    /\ theme' = <<>>
    /\ exitCode' = 0
    /\ console' = <<>>
    /\ imported' = <<>>
    /\ writes' = 0
    /\ outBefore' = outFile
    /\ UNCHANGED <<dirExists, outFile>>

\* the compiler is run again with unchanged fragments
Rerun ==
    /\ pc = "exited"
    /\ run < MaxRuns
    /\ NewProcess
    /\ UNCHANGED <<files, composerVars, cliVars, versionVars>>

\* styles.mjs with `export default {}` in place of no styles fragment, and back
toggleEmptyStyles(fs) ==
    [fs EXCEPT !["styles"][".mjs"] =
        IF @ = Absent THEN Exports(<<>>) ELSE Absent]

\* the styles fragment is omitted, or given as the empty object, and the
\* compiler is run again
EditStylesAndRerun ==
    /\ pc = "exited"
    /\ run < MaxRuns
    /\ dirExists
    /\ files["styles"][".js"] = Absent
    /\ files["styles"][".mjs"] \in {Absent, Exports(<<>>)}
    /\ files' = toggleEmptyStyles(files)
    /\ NewProcess
    /\ UNCHANGED <<composerVars, cliVars, versionVars>>

NextCompiler ==
    \/ Start
    \/ ImportConfig
    \/ ImportSettings
    \/ ImportStyles
    \/ MergeAndWrite
    \/ Rerun
    \/ EditStylesAndRerun

(***************************************************************************)
(* Part II. The webpack configuration composer.                            *)
(***************************************************************************)
\* longest plugin list of the base configuration
MaxPlugins == 3

\* an optional value: undefined, or a value
None == <<>>
Some(x) == <<x>>

\* destructuring with a default: `name = d`
Default(opt, d) == IF opt = None THEN d ELSE opt[1]

\* a property of an object
Prop(k, v) == [k |-> k, v |-> v]

RECURSIVE SeqsUpTo(_, _)
SeqsUpTo(S, n) ==
    IF n = 0 THEN {<<>>}
    ELSE LET shorter == SeqsUpTo(S, n - 1)
         IN  shorter \cup {Append(t, x) : t \in {u \in shorter : Len(u) = n - 1}, x \in S}

\* const defaultLoadPaths
defaultLoadPaths ==
    <<".", "./node_modules", "./node_modules/normalize-scss/sass",
      "./node_modules/mathsass/dist/", "./node_modules/@bostonuniversity">>

\* const defaultSassOptions
defaultSassOptions ==
    <<Prop("loadPaths", defaultLoadPaths),
      Prop("quietDeps", <<"true">>),
      Prop("silenceDeprecations",
           <<"legacy-js-api", "global-builtin", "import", "slash-div",
             "color-functions", "color-4-api">>)>>

\* the default of the oldest composer (webpack.config.js.bak, lines 31-35)
defaultStatsConfig_bak == [preset |-> "errors-only", colors |-> TRUE, errorStack |-> FALSE]

\* const defaultStatsConfig
defaultStatsConfig == [preset |-> "errors-warnings", colors |-> TRUE]

\* a pattern that leaves blocks/ out
defaultCleanKeepPattern_NoBlocks == "/^(fonts|images)[/]/"

\* themeCleanKeepPattern = /^(fonts|images|blocks)\//
defaultCleanKeepPattern == "/^(fonts|images|blocks)[/]/"

\* the alternatives of a pattern of the form /^(a|b|...)\//
alternatives(pattern) ==
    CASE pattern = "/^(fonts|images|blocks)[/]/"        -> {"fonts", "images", "blocks"}
      [] pattern = "/^(fonts|images|blocks|static)[/]/" -> {"fonts", "images", "blocks", "static"}
      [] pattern = "/^(fonts|images)[/]/"               -> {"fonts", "images"}

\* pattern.test( subpath ): the subpath, given by its segments, starts with
\* one of the alternatives followed by a slash
regexTest(pattern, subpath) ==
    /\ Len(subpath) >= 2
    /\ Head(subpath) \in alternatives(pattern)

\* subpaths of the output directory, by their segments
Subpaths ==
    {<<"fonts", "bu.woff2">>, <<"images", "logo.svg">>, <<"blocks", "hero", "index.js">>,
     <<"css", "theme.css">>, <<"js", "fonts", "load.js">>, <<"fonts">>,
     <<"static", "robots.txt">>}

\* output.clean.keep of a configuration: the subpaths a build leaves in place
kept(cfg) ==
    IF cfg.output = None \/ cfg.output[1].clean = None THEN {}
    ELSE {sp \in Subpaths : regexTest(cfg.output[1].clean[1], sp)}

\* the options object of one loader: every key is optional
LoaderOptions(sourceMap, sassOptions, implementation, importLoaders) ==
    [sourceMap |-> sourceMap, sassOptions |-> sassOptions,
     implementation |-> implementation, importLoaders |-> importLoaders]

\* one element of a rule's `use` array
UseEntry(loader, options) == [loader |-> loader, options |-> options]

\* one element of module.rules
Rule(test, loader, exclude, use) ==
    [test |-> test, loader |-> loader, exclude |-> exclude, use |-> use]

\* test: /\.(sc|sa)ss$/
styleTest == "/[.](sc|sa)ss$/"

\* test: /\.(js|mjs)$/
bostonuniversityTest == "/[.](js|mjs)$/"

\* the rules of @wordpress/scripts for scripts and for style files
wpScriptRule ==
    Rule("/[.]m?(j|t)sx?$/", None, Some("/node_modules/"),
         Some(<<UseEntry("babel-loader", LoaderOptions(None, None, None, None))>>))

wpStyleRule ==
    Rule(styleTest, None, None,
         Some(<<UseEntry("mini-css-extract-plugin/loader", LoaderOptions(None, None, None, None)),
                UseEntry("css-loader", LoaderOptions(Some(FALSE), None, None, Some(1))),
                UseEntry("postcss-loader", LoaderOptions(None, None, None, None)),
                UseEntry("sass-loader", LoaderOptions(Some(FALSE), None, None, None))>>))

\* the module.rules lists of the base configurations of the model
BaseRuleLists == {<<wpScriptRule, wpStyleRule>>, <<wpScriptRule>>}

\* the entry points @wordpress/scripts discovers (block.json files)
BaseEntries ==
    {<<>>,
     <<Prop("hero/index", "./src/blocks/hero/index.js")>>,
     <<Prop("hero/index", "./src/blocks/hero/index.js"),
       Prop("js/theme", "./src/blocks/theme/index.js")>>}

\* the classes of the plugins of the base configuration
PluginKinds == {"CopyWebpackPlugin", "MiniCssExtractPlugin", "DependencyExtractionWebpackPlugin"}

\* a webpack configuration: every key is optional
Config(entry, output, devtool, resolveLoaderModules, rules, stats, plugins) ==
    [entry |-> entry, output |-> output, devtool |-> devtool,
     resolveLoaderModules |-> resolveLoaderModules, rules |-> rules,
     stats |-> stats, plugins |-> plugins]

\* the output key of a configuration
Output(path, clean) == [path |-> path, clean |-> clean]

\* import defaultConfig from '@wordpress/scripts/config/webpack.config.js'
BaseConfigs ==
    {Config(Some(e), Some(Output(Some("<cwd>/build"), None)), Some("eval"), None,
            Some(r), Some([preset |-> "normal", colors |-> FALSE]), Some(pl)) :
        e \in BaseEntries, r \in BaseRuleLists, pl \in SeqsUpTo(PluginKinds, MaxPlugins)}

\* the themeEntryPoints a theme may declare
ThemeEntryPointSets ==
    {<<>>,
     <<Prop("css/theme", "./src/scss/theme.scss")>>,
     <<Prop("css/theme", "./src/scss/theme.scss"), Prop("js/theme", "./src/js/theme.js")>>}

\* the options a theme's webpack.config.js may pass to createConfig
CallerOptions ==
    [themeEntryPoints      : {None} \cup {Some(e) : e \in ThemeEntryPointSets},
     sassCompiler          : {None, Some("sass"), Some("sass-embedded")},
     statsConfig           : {None, Some([preset |-> "verbose", colors |-> TRUE])},
     loadPaths             : {None, Some(<<"./custom/sass/path">>)},
     sassOptions           : {None, Some(<<Prop("outputStyle", <<"compressed">>),
                                           Prop("quietDeps", <<"false">>),
                                           Prop("loadPaths", <<"./ignored">>)>>)},
     themeCleanKeepPattern : {None, Some("/^(fonts|images|blocks|static)[/]/")}]

NoCallerOptions ==
    [themeEntryPoints |-> None, sassCompiler |-> None, statsConfig |-> None,
     loadPaths |-> None, sassOptions |-> None, themeCleanKeepPattern |-> None]

\* the last element of a non-empty sequence
Last(q) == q[Len(q)]

\* { ...a, ...b } on loader options
mergeOptions(a, b) ==
    [f \in DOMAIN a |-> IF b[f] # None THEN b[f] ELSE a[f]]

\* use: { loader: 'match', options: 'merge' } for one element of the base's use
mergeUseEntry(x, bu) ==
    LET bMatches == SelectSeq(bu, LAMBDA o : o.loader = x.loader)
    IN  IF bMatches = <<>> THEN x
        ELSE UseEntry(x.loader, mergeOptions(x.options, Last(bMatches).options))

\* use: { loader: 'match', options: 'merge' }
mergeUse(au, bu) ==
    [i \in 1..Len(au) |-> mergeUseEntry(au[i], bu)]
    \o SelectSeq(bu, LAMBDA o : \A i \in 1..Len(au) : au[i].loader # o.loader)

\* the use arrays of the rules in bMatches, concatenated
RECURSIVE concatUse(_)
concatUse(bMatches) ==
    IF bMatches = <<>> THEN <<>>
    ELSE Default(Head(bMatches).use, <<>>) \o concatUse(Tail(bMatches))

\* rules: { test: 'match', use: ... } for one rule of the base
mergeRule(ao, b) ==
    LET bMatches == SelectSeq(b, LAMBDA o : o.test = ao.test)
    IN  IF bMatches = <<>> \/ ao.use = None THEN ao
        ELSE [ao EXCEPT !.use = Some(mergeUse(ao.use[1], concatUse(bMatches)))]

\* module: { rules: 'replace' }: the override's list takes the place of the base's
mergeRules_Replace(a, b) == b

\* module: { rules: { test: 'match', use: { loader: 'match', options: 'merge' } } }
mergeRules(a, b) ==
    [i \in 1..Len(a) |-> mergeRule(a[i], b)]
    \o SelectSeq(b, LAMBDA o : \A i \in 1..Len(a) : a[i].test # o.test)

\* the merge of one array-valued key under a rule
mergeArray(rule, a, b) ==
    IF b = None THEN a
    ELSE IF a = None THEN b
    ELSE IF rule = "replace" THEN b
    ELSE IF rule = "prepend" THEN Some(b[1] \o a[1])
    ELSE Some(a[1] \o b[1])

\* the merge of one object-valued key under a rule
mergeObject(rule, a, b) ==
    IF b = None THEN a
    ELSE IF a = None THEN b
    ELSE IF rule = "replace" THEN b
    ELSE Some(spread(a[1], b[1]))

\* the merge of one scalar key: an undefined value of the override keeps the base's
mergeScalar(a, b) == IF b = None THEN a ELSE b

\* the merge of the output key, for which no rule is given
mergeOutput(a, b) ==
    IF b = None THEN a
    ELSE IF a = None THEN b
    ELSE Some(Output(mergeScalar(a[1].path, b[1].path), mergeScalar(a[1].clean, b[1].clean)))

\* mergeWithRules( rules )( a, b )
mergeWithRules(rules, a, b) ==
    Config(mergeObject(rules.entry, a.entry, b.entry),
           mergeOutput(a.output, b.output),
           mergeScalar(a.devtool, b.devtool),
           mergeArray(rules.resolveLoaderModules, a.resolveLoaderModules, b.resolveLoaderModules),
           IF b.rules = None THEN a.rules
           ELSE IF a.rules = None THEN b.rules
           ELSE Some(mergeRules(a.rules[1], b.rules[1])),
           mergeScalar(a.stats, b.stats),
           mergeArray(rules.plugins, a.plugins, b.plugins))

\* the rules given for the blocks configuration (lines 647-662)
blocksMergeRules ==
    [entry |-> "default", devtool |-> "replace", resolveLoaderModules |-> "prepend",
     rules |-> "match", stats |-> "replace", plugins |-> "default"]

\* the rules of the older composer for the theme configuration: entry: 'merge'
themeMergeRules_EntryMerge ==
    [entry |-> "merge", devtool |-> "replace", resolveLoaderModules |-> "prepend",
     rules |-> "match", stats |-> "replace", plugins |-> "replace"]

\* the rules given for the theme configuration (lines 663-680)
themeMergeRules ==
    [entry |-> "replace", devtool |-> "replace", resolveLoaderModules |-> "prepend",
     rules |-> "match", stats |-> "replace", plugins |-> "replace"]

\* the filter that keeps every plugin
keepPlugin_All(plugin) == TRUE

\* ( plugin ) => ! ( plugin instanceof CopyWebpackPlugin )
keepPlugin(plugin) == plugin # "CopyWebpackPlugin"

\* sassCompiler ? require( sassCompiler ) : undefined
sassImplementation(sassCompiler) ==
    IF sassCompiler # None THEN Some(sassCompiler[1]) ELSE None

\* the rule for .scss and .sass files of blocksConfig (lines 548-568)
styleRule(customSassOptions, implementation) ==
    Rule(styleTest, None, None,
         Some(<<UseEntry("css-loader", LoaderOptions(Some(TRUE), None, None, None)),
                UseEntry("sass-loader",
                         LoaderOptions(Some(TRUE), Some(customSassOptions), implementation, None))>>))

\* the rule of the oldest composer: no implementation is given to sass-loader
themeStyleRule_NoImplementation(customSassOptions, implementation) ==
    Rule(styleTest, None, None,
         Some(<<UseEntry("css-loader", LoaderOptions(Some(TRUE), None, None, None)),
                UseEntry("sass-loader",
                         LoaderOptions(Some(TRUE), Some(customSassOptions), None, None))>>))

\* the rule for .scss and .sass files of themeConfig (lines 605-628)
themeStyleRule(customSassOptions, implementation) ==
    Rule(styleTest, None, None,
         Some(<<UseEntry("css-loader", LoaderOptions(Some(TRUE), None, None, None)),
                UseEntry("sass-loader",
                         LoaderOptions(Some(TRUE), Some(customSassOptions), implementation, None))>>))

\* the babel-loader rule for the @bostonuniversity packages
bostonuniversityRule ==
    Rule(bostonuniversityTest, Some("babel-loader"),
         Some("/node_modules[/](?!(@bostonuniversity)[/]).*/"), None)

\* resolveLoader: { modules: [ 'node_modules', <toolkit>/node_modules ] }
toolkitLoaderModules == <<"node_modules", "<toolkit>/node_modules">>

\* a blocksConfig that declares the plugins and the output of themeConfig
blocksConfig_WithThemeOutput(o) ==
    Config(None,
           Some(Output(None, Some(Default(o.themeCleanKeepPattern, defaultCleanKeepPattern)))),
           Some("source-map"), Some(toolkitLoaderModules),
           Some(<<bostonuniversityRule,
                  styleRule(Default(o.customSassOptions, <<>>), sassImplementation(o.sassCompiler))>>),
           o.statsConfig, Some(<<"RemoveEmptyScriptsPlugin">>))

\* const blocksConfig
blocksConfig(o) ==
    Config(None, None, Some("source-map"), Some(toolkitLoaderModules),
           Some(<<bostonuniversityRule,
                  styleRule(Default(o.customSassOptions, <<>>), sassImplementation(o.sassCompiler))>>),
           o.statsConfig, None)

\* the directories webpack may be started in
WorkingDirectories == {"/themes/responsive", "/themes/child"}

\* path.resolve( from, to ) for a relative `to`: the segments of the result
resolve(from, to) == <<from, to>>

\* what one call of createWebpackConfig asks of its environment:
\* require( sassCompiler ) (line 508), require.resolve of the two loaders
\* (lines 551, 557, 605, 611) and process.cwd() (line 585)
environmentReads(sassCompiler) ==
    {"require.resolve( 'css-loader' )", "require.resolve( 'sass-loader' )", "process.cwd()"}
    \cup (IF sassCompiler # None THEN {"require( sassCompiler )"} ELSE {})

\* const themeConfig
themeConfig(dir, base, o) ==
    Config(Some(spread(<<>>, Default(o.themeEntryPoints, <<>>))),
           Some(Output(Some(resolve(dir, "build")),
                       Some(Default(o.themeCleanKeepPattern, defaultCleanKeepPattern)))),
           Some("source-map"), Some(toolkitLoaderModules),
           Some(<<themeStyleRule(Default(o.customSassOptions, <<>>), sassImplementation(o.sassCompiler))>>),
           o.statsConfig,
           Some(SelectSeq(base.plugins[1], keepPlugin) \o <<"RemoveEmptyScriptsPlugin">>))

\* function createWebpackConfig( options )
createWebpackConfig(dir, base, o) ==
    <<mergeWithRules(blocksMergeRules, base, blocksConfig(o)),
      mergeWithRules(themeMergeRules, base, themeConfig(dir, base, o))>>

\* the options createWebpackConfig destructures
ComposerOptions(themeEntryPoints, sassCompiler, statsConfig, customSassOptions, keep) ==
    [themeEntryPoints |-> themeEntryPoints, sassCompiler |-> sassCompiler,
     statsConfig |-> statsConfig, customSassOptions |-> customSassOptions,
     themeCleanKeepPattern |-> keep]

\* the merge with loadPaths written first: sassOptions.loadPaths overwrites it
mergedSassOptions_LoadPathsFirst(o) ==
    spread(spread(<<Prop("loadPaths", defaultLoadPaths \o Default(o.loadPaths, <<>>))>>,
                  defaultSassOptions),
           Default(o.sassOptions, <<>>))

\* const mergedSassOptions = { ...defaultSassOptions, ...sassOptions, loadPaths: mergedLoadPaths }
mergedSassOptions(o) ==
    setProperty(spread(spread(<<>>, defaultSassOptions), Default(o.sassOptions, <<>>)),
                Prop("loadPaths", defaultLoadPaths \o Default(o.loadPaths, <<>>)))

\* function createConfig( options = {} ) of index.js
createConfig(dir, base, o) ==
    createWebpackConfig(dir, base,
        ComposerOptions(Some(Default(o.themeEntryPoints, <<>>)),
                        Some(Default(o.sassCompiler, "sass-embedded")),
                        Some(Default(o.statsConfig, defaultStatsConfig)),
                        Some(mergedSassOptions(o)),
                        None))

\* function createConfig( options = {} ) of the later index.js (part_008)
createConfig_part008(dir, base, o) ==
    createWebpackConfig(dir, base,
        ComposerOptions(Some(Default(o.themeEntryPoints, <<>>)),
                        o.sassCompiler,
                        Some(Default(o.statsConfig, defaultStatsConfig)),
                        Some(mergedSassOptions(o)),
                        o.themeCleanKeepPattern))

\* the theme's webpack.config.js calls createConfig of index.js
CallCreateConfig ==
    /\ configs = <<>>
    /\ \E o \in CallerOptions :
          /\ callOptions' = o
          /\ configs' = createConfig(cwd, defaultConfig, o)
          /\ interactions' = environmentReads(Some(Default(o.sassCompiler, "sass-embedded")))
    /\ calledModule' = "index.js"
    /\ UNCHANGED <<defaultConfig, cwd, prevConfigs, compilerVars, cliVars, versionVars>>

\* the theme's webpack.config.js calls createConfig of the later index.js
CallCreateConfig_part008 ==
    /\ configs = <<>>
    /\ \E o \in CallerOptions :
          /\ callOptions' = o
          /\ configs' = createConfig_part008(cwd, defaultConfig, o)
          /\ interactions' = environmentReads(o.sassCompiler)
    /\ calledModule' = "part_008"
    /\ UNCHANGED <<defaultConfig, cwd, prevConfigs, compilerVars, cliVars, versionVars>>

\* createConfig of the module the theme called, on the same arguments
createConfigOf(module, dir, base, o) ==
    IF module = "index.js" THEN createConfig(dir, base, o)
    ELSE createConfig_part008(dir, base, o)

\* process.chdir: the other working directory
otherDirectory(dir) == CHOOSE d \in WorkingDirectories : d # dir

\* webpack is started again from another directory (a second theme with an
\* equal webpack.config.js): the same createConfig gets the same arguments
CallAgainElsewhere ==
    /\ configs # <<>>
    /\ prevConfigs = <<>>
    /\ cwd' = otherDirectory(cwd)
    /\ prevConfigs' = configs
    /\ configs' = createConfigOf(calledModule, otherDirectory(cwd), defaultConfig, callOptions)
    /\ UNCHANGED <<defaultConfig, calledModule, callOptions, interactions, compilerVars, cliVars, versionVars>>

NextComposer ==
    \/ CallCreateConfig
    \/ CallCreateConfig_part008
    \/ CallAgainElsewhere

\* the base configuration of a theme whose webpack.config.js is not evaluated
IdleBase ==
    Config(Some(<<>>), Some(Output(Some("<cwd>/build"), None)), Some("eval"), None,
           Some(<<wpScriptRule>>), Some([preset |-> "normal", colors |-> FALSE]), Some(<<>>))
(***************************************************************************)
(* Part IV: the version update (update-version.js, run by build:version).  *)
(***************************************************************************)

\* one piece of a CSS file: the theme header or other text
Chunk(kind, text) == [kind |-> kind, text |-> text]

\* the fields of package.json the header is made of: every key is optional
PackageInfo(name, version, description, repository, homepage) ==
    [name |-> name, version |-> version, description |-> description,
     repository |-> repository, homepage |-> homepage]

\* package.json: missing, not parseable, or an object
PackageJson(kind, info) == [kind |-> kind, info |-> info]

NoInfo == PackageInfo(None, None, None, None, None)

NoPackageJson == PackageJson("missing", NoInfo)

\* the package.json files of the model
PackageJsons ==
    {NoPackageJson, PackageJson("invalid", NoInfo)}
    \cup {PackageJson("ok", PackageInfo(Some("r-theme"), v, d, None, None)) :
            v \in {None, Some("1.1.0"), Some("2.0.0")},
            d \in {None, Some("A child theme")}}

\* function generateCssHeader( packageInfo ): the template with the defaults
\* of the destructuring
generateCssHeader(packageInfo) ==
    <<Chunk("header",
            <<Default(packageInfo.name, ""), Default(packageInfo.repository, ""),
              Default(packageInfo.description, ""), Default(packageInfo.homepage, ""),
              Default(packageInfo.version, "1.0.0"), Default(packageInfo.name, "")>>)>>

\* the header of an earlier version of the theme
oldHeader == generateCssHeader(PackageInfo(Some("r-theme"), Some("0.9.0"), None, None, None))

\* style.css as a run may find it
StyleCssFiles == {None, Some(oldHeader), Some(oldHeader \o <<Chunk("css", <<"body{}">>)>>)}

\* build/css/theme.css as a run may find it
ThemeCssFiles == {None, Some(<<>>), Some(<<Chunk("css", <<".a{}">>)>>)}

\* function updateFile( filePath, header, prependOnly ): the file after the call
updateFile(file, fileHeader, prependOnly) ==
    IF file = None THEN None
    ELSE IF prependOnly THEN Some(fileHeader \o file[1])
    ELSE Some(fileHeader)

\* what updateFile prints
updateFileLog(file, fileName) ==
    IF file = None THEN <<"Skipping " \o fileName>> ELSE <<"Updated " \o fileName>>

\* main(): getPackageInfo() and generateCssHeader(); a missing or invalid
\* package.json throws, which main() reports before process.exit( 1 )
getPackageInfo ==
    /\ versionPc = "start"
    /\ IF packageJson.kind # "ok"
       THEN /\ versionLog' = <<"Version update failed">>
            /\ versionStatus' = 1
            /\ versionPc' = "exited"
            /\ cssHeader' = cssHeader
       ELSE /\ cssHeader' = generateCssHeader(packageJson.info)
            /\ versionPc' = "style.css"
            /\ versionLog' = <<>>
            /\ versionStatus' = versionStatus
    /\ UNCHANGED <<packageJson, styleCss, themeCss, originalStyleCss, originalThemeCss,
                   versionRun, compilerVars, composerVars, cliVars>>

\* await updateFile( 'style.css', cssHeader, false )
updateStyleCss ==
    /\ versionPc = "style.css"
    /\ styleCss' = updateFile(styleCss, cssHeader, FALSE)
    /\ versionLog' = versionLog \o updateFileLog(styleCss, "style.css")
    /\ versionPc' = "build/css/theme.css"
    /\ UNCHANGED <<packageJson, themeCss, originalStyleCss, originalThemeCss, cssHeader,
                   versionStatus, versionRun, compilerVars, composerVars, cliVars>>

\* await updateFile( 'build/css/theme.css', cssHeader, true ), and the end
\* of main()
updateThemeCss ==
    /\ versionPc = "build/css/theme.css"
    /\ themeCss' = updateFile(themeCss, cssHeader, TRUE)
    /\ versionLog' = versionLog \o updateFileLog(themeCss, "build/css/theme.css")
                                \o <<"Version update complete!">>
    /\ versionStatus' = 0
    /\ versionRun' = versionRun + 1
    /\ versionPc' = "exited"
    /\ UNCHANGED <<packageJson, styleCss, originalStyleCss, originalThemeCss, cssHeader,
                   compilerVars, composerVars, cliVars>>

\* build:version is run again with the same package.json
runVersionAgain ==
    /\ versionPc = "exited"
    /\ versionStatus = 0
    /\ versionRun < MaxRuns
    /\ versionPc' = "start"
    /\ cssHeader' = <<>>
    /\ versionLog' = <<>>
    /\ UNCHANGED <<packageJson, styleCss, themeCss, originalStyleCss, originalThemeCss,
                   versionStatus, versionRun, compilerVars, composerVars, cliVars>>

NextVersion ==
    \/ getPackageInfo
    \/ updateStyleCss
    \/ updateThemeCss
    \/ runVersionAgain


\* the compiler is about to run in a theme directory; the composer is not used
InitCompiler ==
    /\ dirExists \in BOOLEAN
    /\ files \in (IF dirExists THEN FileSystems ELSE {NoFragments})
    /\ outFile \in {NoFile, StaleFile}
    /\ outBefore = outFile
    /\ pc = "start"
    /\ config = JsNull
    /\ settings = JsNull
    /\ styles = JsNull
    /\ theme = <<>>
    /\ exitCode = 0
    /\ console = <<>>
    /\ imported = <<>>
    /\ writes = 0
    /\ run = 1
    /\ prev = NoPrev
    /\ defaultConfig = IdleBase
    /\ calledModule = "none"
    /\ callOptions = NoCallerOptions
    /\ configs = <<>>
    /\ cwd = "/themes/responsive"
    /\ interactions = {}
    /\ prevConfigs = <<>>
    /\ command = <<>>
    /\ args = <<>>
    /\ themeJsonSrcDir = FALSE
    /\ themePackage = <<>>
    /\ cliPc = "main"
    /\ handler = <<>>
    /\ tasks = <<>>
    /\ parallel = FALSE
    /\ spawned = <<>>
    /\ stderr = <<>>
    /\ outcome = "pending"
    /\ status = 0
    /\ inheritedEnv = None
    /\ processEnv = None
    /\ header = "pending"
    /\ events = <<>>
    /\ promise = "none"
    /\ packageJson = NoPackageJson
    /\ styleCss = None
    /\ themeCss = None
    /\ originalStyleCss = None
    /\ originalThemeCss = None
    /\ versionPc = "start"
    /\ cssHeader = <<>>
    /\ versionLog = <<>>
    /\ versionStatus = 0
    /\ versionRun = 0

\* webpack.config.js is about to be evaluated; the compiler is not run, in a
\* theme without src/theme-json
InitComposer ==
    /\ defaultConfig \in BaseConfigs
    /\ calledModule = "none"
    /\ callOptions = NoCallerOptions
    /\ configs = <<>>
    /\ cwd = "/themes/responsive"
    /\ interactions = {}
    /\ prevConfigs = <<>>
    /\ command = <<>>
    /\ args = <<>>
    /\ themeJsonSrcDir = FALSE
    /\ themePackage = <<>>
    /\ cliPc = "main"
    /\ handler = <<>>
    /\ tasks = <<>>
    /\ parallel = FALSE
    /\ spawned = <<>>
    /\ stderr = <<>>
    /\ outcome = "pending"
    /\ status = 0
    /\ inheritedEnv = None
    /\ processEnv = None
    /\ header = "pending"
    /\ events = <<>>
    /\ promise = "none"
    /\ dirExists = FALSE
    /\ files = NoFragments
    /\ outFile = NoFile
    /\ outBefore = NoFile
    /\ pc = "start"
    /\ config = JsNull
    /\ settings = JsNull
    /\ styles = JsNull
    /\ theme = <<>>
    /\ exitCode = 0
    /\ console = <<>>
    /\ imported = <<>>
    /\ writes = 0
    /\ run = 1
    /\ prev = NoPrev
    /\ packageJson = NoPackageJson
    /\ styleCss = None
    /\ themeCss = None
    /\ originalStyleCss = None
    /\ originalThemeCss = None
    /\ versionPc = "start"
    /\ cssHeader = <<>>
    /\ versionLog = <<>>
    /\ versionStatus = 0
    /\ versionRun = 0

(***************************************************************************)
(* Part III: the bu-build command line (bin/bu-build.js, bin/commands,     *)
(* bin/utils/run.js).                                                      *)
(***************************************************************************)

\* const commands: the own keys of the registry
commands ==
    {"start", "watch:scripts", "watch:theme-json", "watch:verbose",
     "build", "build:scripts", "build:theme-json", "build:verbose", "build:version",
     "build:i18n", "build:clean", "build:wpi18n", "build:wpmakepot",
     "lint", "lint:css", "lint:js", "lint:js:fix", "lint:md", "lint:pkg",
     "lint:php", "lint:php:all", "test:e2e", "test:unit",
     "format", "check-engines", "check-licenses", "help"}

\* the functions an object literal inherits from Object.prototype
ObjectPrototypeFunctions == {"constructor", "toString", "valueOf", "hasOwnProperty"}

\* commands[ command ]: an own key gives its handler; a key of
\* Object.prototype gives the inherited member (for __proto__ the prototype
\* object itself); any other key gives undefined
lookup(c) ==
    IF c \in commands THEN Some([kind |-> "handler", name |-> c])
    ELSE IF c \in ObjectPrototypeFunctions THEN Some([kind |-> "inherited function", name |-> c])
    ELSE IF c = "__proto__" THEN Some([kind |-> "object", name |-> c])
    ELSE None

\* ! command || command === 'help' || command === '--help' || command === '-h'
helpRequested(c) == IF c = None THEN TRUE ELSE c[1] \in {"", "help", "--help", "-h"}

\* the exit status main() ends with after the handler settled
exitStatus_Zero(settled) == 0

\* try { await commands[ command ]( args ) } catch { process.exit( 1 ) }
exitStatus(settled) == IF settled = "rejected" THEN 1 ELSE 0

\* the scripts of the package.json the README gives to a theme
readmeScripts ==
    {"start", "watch:scripts", "watch:theme-json", "format",
     "lint", "lint:css", "lint:js", "lint:js:fix", "lint:md", "lint:pkg", "lint:php",
     "lint:php:all", "test:e2e", "test:unit",
     "build", "build:scripts", "build:theme-json", "build:i18n", "build:clean",
     "build:wpi18n", "build:wpmakepot", "build:version"}

\* the script names each pipeline asks the theme's package.json for
buildScriptNames ==
    {"build:theme-json", "build:theme", "build:scripts", "build:i18n", "build:version"}

lintScriptNames == {"lint:css", "lint:js", "lint:md", "lint:pkg", "lint:php"}

watchScriptNames == {"watch:scripts", "watch:theme-json", "watch:theme"}

\* getThemePackage().scripts for the themes of the model: the README's
\* scripts with any choice of the scripts the command's pipeline asks for,
\* or a package.json without a scripts key
ThemePackages(c) ==
    LET asked == IF c = Some("build") THEN buildScriptNames
                 ELSE IF c = Some("lint") THEN lintScriptNames
                 ELSE IF c = Some("start") THEN watchScriptNames
                 ELSE {}
    IN  {Some((readmeScripts \ asked) \cup chosen) : chosen \in SUBSET asked}
        \cup (IF asked = {} THEN {} ELSE {None})

\* themePackage.scripts && themePackage.scripts[ name ]
hasScript(pkg, name) == pkg # None /\ name \in pkg[1]

\* process.argv[ 2 ] in the runs of the model
CommandLines ==
    {None} \cup {Some(c) : c \in {"build", "start", "lint", "build:scripts", "watch:scripts",
                                   "help", "--help", "deploy", "constructor", "__proto__"}}

\* process.argv.slice( 3 ) in the runs of the model
ArgLists == {<<>>, <<"--mode=development">>}

\* the scripts of the README run bu-build: "<task>": "bu-build <task>"
runsBuBuild(task, via) == via = "npm-run-all" /\ task \in commands

\* one child process: the task it runs, who started it, its arguments,
\* whether its exit status is masked (| grep ... || true), its state, the
\* BU_BUILD_HEADER_SHOWN it has from its parent, and the header of its own
\* main() when it is a bu-build process
Child(task, via, childArgs, masked, env) ==
    [task |-> task, via |-> via, args |-> childArgs, masked |-> masked, state |-> "running",
     env |-> env, header |-> IF runsBuBuild(task, via) THEN "pending" ELSE "none"]

\* one event of a child process
Event(type, code) == [type |-> type, code |-> code]

\* the exit codes of a close event: 0, 1, null for a child ended by a signal
ExitCodes == {Some(0), Some(1), None}

\* the code of the close event that follows a failed spawn: the negated errno
spawnErrorCode == Some(-2)

\* if ( code ) reject, else resolve: null counts as success
closeOutcome_Truthy(code) ==
    IF code = None THEN "resolved"
    ELSE IF code[1] # 0 THEN "rejected" ELSE "resolved"

\* child.on( 'close', ( code ) => { if ( code !== 0 ) reject( ... ) else resolve() } )
closeOutcome(code) == IF code # Some(0) THEN "rejected" ELSE "resolved"

\* resolve() and reject() of a promise: the first call settles it, later
\* calls have no effect
settle(p, how) == IF p = "pending" THEN how ELSE p

\* the header is displayed whatever the environment holds
headerNeeded_Always(env) == TRUE

\* ! process.env.BU_BUILD_HEADER_SHOWN
headerNeeded(env) == env = None

\* const buildSteps of build()
buildSteps(dir, pkg) ==
    (IF dir THEN <<"build:theme-json">> ELSE <<>>)
    \o (IF hasScript(pkg, "build:theme") THEN <<"build:theme">> ELSE <<>>)
    \o <<"build:scripts">>
    \o (IF hasScript(pkg, "build:i18n") THEN <<"build:i18n">> ELSE <<>>)
    \o (IF hasScript(pkg, "build:version") THEN <<"build:version">> ELSE <<>>)

\* const lintSteps of lint()
lintSteps(pkg) == <<"lint:css", "lint:js", "lint:md", "lint:pkg", "lint:php">>

\* const tasks of start()
watchTasks(dir, pkg) ==
    <<"watch:scripts">>
    \o (IF dir THEN <<"watch:theme-json">> ELSE <<>>)
    \o (IF hasScript(pkg, "watch:theme") THEN <<"watch:theme">> ELSE <<>>)

\* npm-run-all looks every task up in the scripts of package.json before it
\* starts any: a name without a script ends it with "Task not found"
taskNotFound(runTasks, pkg) ==
    \E i \in 1..Len(runTasks) : ~hasScript(pkg, runTasks[i])

\* await runNpmRunAll( runArgs ): the tasks are given without arguments
runNpmRunAll(runTasks, inParallel) ==
    /\ parallel' = inParallel
    /\ spawned' = spawned
    /\ IF taskNotFound(runTasks, themePackage)
       THEN /\ tasks' = <<>>
            /\ events' = <<Event("close", Some(1))>>
            /\ promise' = settle("pending", closeOutcome(Some(1)))
            /\ outcome' = promise'
            /\ cliPc' = "settled"
       ELSE /\ tasks' = runTasks
            /\ events' = <<>>
            /\ promise' = "pending"
            /\ outcome' = outcome
            /\ cliPc' = "steps"

\* await runWpScriptsFiltered( scriptCommand, scriptArgs ):
\* wp-scripts <scriptCommand> --color <scriptArgs> | grep -v ... || true
runWpScriptsFiltered(task, scriptCommand, scriptArgs) ==
    /\ parallel' = FALSE
    /\ tasks' = <<>>
    /\ spawned' = Append(spawned,
                         Child(task, "wp-scripts", <<scriptCommand, "--color">> \o scriptArgs, TRUE,
                               processEnv))
    /\ events' = <<>>
    /\ promise' = "pending"
    /\ outcome' = outcome
    /\ cliPc' = "steps"

\* main(), lines 155-158: the header is displayed once per session
mainHeader ==
    /\ cliPc = "header"
    /\ IF headerNeeded(processEnv)
       THEN header' = "displayed" /\ processEnv' = Some("true")
       ELSE header' = "skipped" /\ processEnv' = processEnv
    /\ cliPc' = "main"
    /\ UNCHANGED <<command, args, themeJsonSrcDir, themePackage, handler, tasks, parallel,
                   spawned, stderr, outcome, status, inheritedEnv, events, promise,
                   compilerVars, composerVars, versionVars>>

\* main(): help is shown and the process exits with 0
mainHelp ==
    /\ cliPc = "main"
    /\ helpRequested(command)
    /\ outcome' = "help"
    /\ status' = 0
    /\ cliPc' = "exited"
    /\ UNCHANGED <<command, args, themeJsonSrcDir, themePackage, handler, tasks, parallel,
                   spawned, stderr, inheritedEnv, processEnv, header, events, promise,
                   compilerVars, composerVars, versionVars>>

\* main(): if ( ! commands[ command ] ) the error is printed, exit 1
mainUnknownCommand ==
    /\ cliPc = "main"
    /\ ~helpRequested(command)
    /\ lookup(command[1]) = None
    /\ stderr' = stderr \o <<"Unknown command", "Run 'bu-build help' to see available commands.">>
    /\ outcome' = "unknown"
    /\ status' = 1
    /\ cliPc' = "exited"
    /\ UNCHANGED <<command, args, themeJsonSrcDir, themePackage, handler, tasks, parallel,
                   spawned, inheritedEnv, processEnv, header, events, promise,
                   compilerVars, composerVars, versionVars>>

\* main(): commands[ command ] is truthy and is about to be called with args
mainDispatch ==
    /\ cliPc = "main"
    /\ ~helpRequested(command)
    /\ lookup(command[1]) # None
    /\ handler' = lookup(command[1])
    /\ cliPc' = "handler"
    /\ UNCHANGED <<command, args, themeJsonSrcDir, themePackage, tasks, parallel, spawned,
                   stderr, outcome, status, inheritedEnv, processEnv, header, events, promise,
                   compilerVars, composerVars, versionVars>>

\* the handler main() is calling
Calling(name) == cliPc = "handler" /\ handler = Some([kind |-> "handler", name |-> name])

\* async function build( args )
build ==
    /\ Calling("build")
    /\ LET steps == buildSteps(themeJsonSrcDir, themePackage)
       IN  IF Len(steps) > 1
           THEN runNpmRunAll(steps, FALSE)
           ELSE runWpScriptsFiltered("build:scripts", "build", args)
    /\ UNCHANGED <<command, args, themeJsonSrcDir, themePackage, handler, stderr, status,
                   inheritedEnv, processEnv, header,
                   compilerVars, composerVars, versionVars>>

\* async function buildScripts( args )
buildScripts ==
    /\ Calling("build:scripts")
    /\ runWpScriptsFiltered("build:scripts", "build", args)
    /\ UNCHANGED <<command, args, themeJsonSrcDir, themePackage, handler, stderr, status,
                   inheritedEnv, processEnv, header,
                   compilerVars, composerVars, versionVars>>

\* async function start( args )
start ==
    /\ Calling("start")
    /\ LET watchers == watchTasks(themeJsonSrcDir, themePackage)
       IN  IF Len(watchers) > 1
           THEN runNpmRunAll(watchers, TRUE)
           ELSE runWpScriptsFiltered("watch:scripts", "start", args)
    /\ UNCHANGED <<command, args, themeJsonSrcDir, themePackage, handler, stderr, status,
                   inheritedEnv, processEnv, header,
                   compilerVars, composerVars, versionVars>>

\* async function watchScripts( args )
watchScripts ==
    /\ Calling("watch:scripts")
    /\ runWpScriptsFiltered("watch:scripts", "start", args)
    /\ UNCHANGED <<command, args, themeJsonSrcDir, themePackage, handler, stderr, status,
                   inheritedEnv, processEnv, header,
                   compilerVars, composerVars, versionVars>>

\* async function lint( args )
lint ==
    /\ Calling("lint")
    /\ runNpmRunAll(lintSteps(themePackage), FALSE)
    /\ UNCHANGED <<command, args, themeJsonSrcDir, themePackage, handler, stderr, status,
                   inheritedEnv, processEnv, header,
                   compilerVars, composerVars, versionVars>>

\* commands[ command ]( args ) for a member inherited from Object.prototype:
\* a function is called and returns, the prototype object is not callable
\* and the call throws a TypeError
callInheritedMember ==
    /\ cliPc = "handler"
    /\ handler # None
    /\ handler[1].kind # "handler"
    /\ outcome' = IF handler[1].kind = "inherited function" THEN "resolved" ELSE "rejected"
    /\ cliPc' = "settled"
    /\ UNCHANGED <<command, args, themeJsonSrcDir, themePackage, handler, tasks, parallel,
                   spawned, stderr, status, inheritedEnv, processEnv, header, events, promise,
                   compilerVars, composerVars, versionVars>>

\* the indices of the children that have not ended
Running == {i \in 1..Len(spawned) : spawned[i].state = "running"}

\* npm-run-all starts the next task: at once with --parallel, otherwise
\* when no task is running (a failed task has ended the run before)
npmRunAllStartTask ==
    /\ cliPc = "steps"
    /\ tasks # <<>>
    /\ parallel \/ Running = {}
    /\ spawned' = Append(spawned, Child(Head(tasks), "npm-run-all", <<>>, FALSE, processEnv))
    /\ tasks' = Tail(tasks)
    /\ UNCHANGED <<command, args, themeJsonSrcDir, themePackage, cliPc, handler, parallel,
                   stderr, outcome, status, inheritedEnv, processEnv, header, events, promise,
                   compilerVars, composerVars, versionVars>>

\* main() of a bu-build process that a script of the theme started: the
\* header check on the environment the child has from its parent
nestedMainHeader ==
    /\ cliPc = "steps"
    /\ \E i \in Running :
          /\ spawned[i].header = "pending"
          /\ spawned' = [spawned EXCEPT
                            ![i].header = IF headerNeeded(spawned[i].env)
                                          THEN "displayed" ELSE "skipped",
                            ![i].env = Some("true")]
    /\ UNCHANGED <<command, args, themeJsonSrcDir, themePackage, cliPc, handler, tasks,
                   parallel, stderr, outcome, status,
                   inheritedEnv, processEnv, header, events, promise,
                   compilerVars, composerVars, versionVars>>

\* the close event of the child of runCommand with its code
closed(code) ==
    /\ events' = Append(events, Event("close", code))
    /\ promise' = settle(promise, closeOutcome(code))
    /\ outcome' = promise'
    /\ cliPc' = "settled"

\* child.on( 'close', ( code ) => ... ): a task ends with status 0 or not (a
\* bu-build process that ends with 0 has run its main()). The child of
\* runCommand (npm-run-all, or the shell of the wp-scripts pipeline) closes
\* when a task has failed, with 1 or with null after a signal, and when the
\* last task has ended, with 0; the pipeline `... | grep -v ... || true`
\* closes with 0 whatever wp-scripts ended with
childClose ==
    /\ cliPc = "steps"
    /\ \E i \in Running, ok \in BOOLEAN :
          /\ ok => spawned[i].header # "pending"
          /\ spawned' = [spawned EXCEPT ![i].state = IF ok THEN "ok" ELSE "failed"]
          /\ IF ~ok /\ ~spawned[i].masked
             THEN \E code \in ExitCodes \ {Some(0)} : closed(code)
             ELSE IF tasks = <<>> /\ Running = {i}
             THEN closed(Some(0))
             ELSE UNCHANGED <<outcome, cliPc, events, promise>>
    /\ UNCHANGED <<command, args, themeJsonSrcDir, themePackage, handler, tasks, parallel,
                   stderr, status, inheritedEnv, processEnv, header,
                   compilerVars, composerVars, versionVars>>

\* child.on( 'error', reject ): the child of runCommand could not be
\* started, so that none of its tasks runs
childError ==
    /\ cliPc = "steps"
    /\ events = <<>>
    /\ \A i \in 1..Len(spawned) : spawned[i].via = "wp-scripts" /\ spawned[i].state = "running"
    /\ spawned' = [i \in 1..Len(spawned) |-> [spawned[i] EXCEPT !.state = "error"]]
    /\ tasks' = <<>>
    /\ events' = <<Event("error", None)>>
    /\ promise' = settle(promise, "rejected")
    /\ outcome' = promise'
    /\ cliPc' = "settled"
    /\ UNCHANGED <<command, args, themeJsonSrcDir, themePackage, handler, parallel,
                   stderr, status, inheritedEnv, processEnv, header,
                   compilerVars, composerVars, versionVars>>

\* the close event that follows the error event of a failed spawn reaches
\* the same handlers before main() goes on
closeAfterError ==
    /\ cliPc = "settled"
    /\ events = <<Event("error", None)>>
    /\ events' = Append(events, Event("close", spawnErrorCode))
    /\ promise' = settle(promise, closeOutcome(spawnErrorCode))
    /\ UNCHANGED <<command, args, themeJsonSrcDir, themePackage, cliPc, handler, tasks,
                   parallel, spawned, stderr, outcome, status,
                   inheritedEnv, processEnv, header,
                   compilerVars, composerVars, versionVars>>

\* main(): the awaited handler has settled; a rejection is reported and the
\* process exits with 1, otherwise main() returns and the process ends
mainExit ==
    /\ cliPc = "settled"
    /\ stderr' = IF outcome = "rejected" THEN stderr \o <<"Error running command">> ELSE stderr
    /\ status' = exitStatus(outcome)
    /\ cliPc' = "exited"
    /\ UNCHANGED <<command, args, themeJsonSrcDir, themePackage, handler, tasks, parallel,
                   spawned, outcome, inheritedEnv, processEnv, header, events, promise,
                   compilerVars, composerVars, versionVars>>

NextCli ==
    \/ mainHeader
    \/ mainHelp
    \/ mainUnknownCommand
    \/ mainDispatch
    \/ build
    \/ buildScripts
    \/ start
    \/ watchScripts
    \/ lint
    \/ callInheritedMember
    \/ npmRunAllStartTask
    \/ nestedMainHeader
    \/ childClose
    \/ childError
    \/ closeAfterError
    \/ mainExit

\* bu-build is started in a theme directory; neither the compiler nor the
\* composer of this process is used
InitCli ==
    /\ command \in CommandLines
    /\ args \in ArgLists
    /\ themeJsonSrcDir \in BOOLEAN
    /\ themePackage \in ThemePackages(command)
    /\ cliPc = "header"
    /\ handler = None
    /\ tasks = <<>>
    /\ parallel = FALSE
    /\ spawned = <<>>
    /\ stderr = <<>>
    /\ outcome = "pending"
    /\ status = 0
    /\ inheritedEnv \in {None, Some("true")}
    /\ processEnv = inheritedEnv
    /\ header = "pending"
    /\ events = <<>>
    /\ promise = "none"
    /\ dirExists = FALSE
    /\ files = NoFragments
    /\ outFile = NoFile
    /\ outBefore = NoFile
    /\ pc = "start"
    /\ config = JsNull
    /\ settings = JsNull
    /\ styles = JsNull
    /\ theme = <<>>
    /\ exitCode = 0
    /\ console = <<>>
    /\ imported = <<>>
    /\ writes = 0
    /\ run = 1
    /\ prev = NoPrev
    /\ defaultConfig = IdleBase
    /\ calledModule = "none"
    /\ callOptions = NoCallerOptions
    /\ configs = <<>>
    /\ cwd = "/themes/responsive"
    /\ interactions = {}
    /\ prevConfigs = <<>>
    /\ packageJson = NoPackageJson
    /\ styleCss = None
    /\ themeCss = None
    /\ originalStyleCss = None
    /\ originalThemeCss = None
    /\ versionPc = "start"
    /\ cssHeader = <<>>
    /\ versionLog = <<>>
    /\ versionStatus = 0
    /\ versionRun = 0

SpecCli == InitCli /\ [][NextCli]_vars

SpecCompiler == InitCompiler /\ [][NextCompiler]_vars

SpecComposer == InitComposer /\ [][NextComposer]_vars

\* update-version.js is started in a theme directory; the compiler, the
\* composer and the command line of this process are not used
InitVersion ==
    /\ packageJson \in PackageJsons
    /\ styleCss \in StyleCssFiles
    /\ themeCss \in ThemeCssFiles
    /\ originalStyleCss = styleCss
    /\ originalThemeCss = themeCss
    /\ versionPc = "start"
    /\ cssHeader = <<>>
    /\ versionLog = <<>>
    /\ versionStatus = 0
    /\ versionRun = 0
    /\ command = <<>>
    /\ args = <<>>
    /\ themeJsonSrcDir = FALSE
    /\ themePackage = <<>>
    /\ cliPc = "main"
    /\ handler = <<>>
    /\ tasks = <<>>
    /\ parallel = FALSE
    /\ spawned = <<>>
    /\ stderr = <<>>
    /\ outcome = "pending"
    /\ status = 0
    /\ inheritedEnv = None
    /\ processEnv = None
    /\ header = "pending"
    /\ events = <<>>
    /\ promise = "none"
    /\ dirExists = FALSE
    /\ files = NoFragments
    /\ outFile = NoFile
    /\ pc = "start"
    /\ config = JsNull
    /\ settings = JsNull
    /\ styles = JsNull
    /\ exitCode = 0
    /\ console = <<>>
    /\ imported = <<>>
    /\ theme = <<>>
    /\ writes = 0
    /\ outBefore = NoFile
    /\ run = 1
    /\ prev = NoPrev
    /\ defaultConfig = IdleBase
    /\ calledModule = "none"
    /\ callOptions = NoCallerOptions
    /\ configs = <<>>
    /\ cwd = "/themes/responsive"
    /\ interactions = {}
    /\ prevConfigs = <<>>

SpecVersion == InitVersion /\ [][NextVersion]_vars

(***************************************************************************)
(* Properties of the theme.json compiler.                                  *)
(***************************************************************************)
\* the run has ended
Exited == pc = "exited"

\* in this run the import() of a present fragment file was rejected
ImportFailed == \E i \in 1..Len(console) : console[i].msg = "Error importing"

\* the run printed msg on stream
Printed(stream, msg) ==
    \E i \in 1..Len(console) : console[i].stream = stream /\ console[i].msg = msg

\* the run left theme.json as it found it
OutputUntouched == writes = 0 /\ outFile = outBefore

\* C1: a fragment file that exists but fails to load makes the whole compile
\* abort: the process exits with a failure status, whatever the other
\* fragments did.
C1_LoadFailureIsFatal ==
    (Exited /\ ImportFailed) => exitCode = 1

\* C2: when a present fragment file fails to load, theme.json is neither
\* created nor modified in that run.
C2_NoWriteOnLoadFailure ==
    (Exited /\ ImportFailed) => OutputUntouched

\* the fragment loaded for a role (null when none was)
Loaded(role) ==
    CASE role = "config"   -> config
      [] role = "settings" -> settings
      [] role = "styles"   -> styles

\* the loaded fragment x has the top-level key k
Defines(x, k) == ~x.isNull /\ \E i \in 1..Len(x.doc) : x.doc[i].k = k

\* the value of the top-level key k in the object d
ValueOf(d, k) == d[CHOOSE i \in 1..Len(d) : d[i].k = k].v

\* the key/value lines of the text of a theme.json
FilePairs(f) ==
    {[k |-> f.bytes[i].k, v |-> f.bytes[i].v] :
        i \in {j \in 1..Len(f.bytes) : f.bytes[j].indent = 2}}

\* the last role, in the order config, settings, styles, whose fragment defines k
LastDefining(k) ==
    IF Defines(styles, k) THEN "styles"
    ELSE IF Defines(settings, k) THEN "settings"
    ELSE "config"

\* C3: the compiled document is the shallow overlay of the fragments in the
\* order config, settings, styles: each top-level key carries the value of
\* the last fragment that defines it, and no key appears that no fragment
\* defines (so fragments with disjoint keys give their union).
C3_ShallowOverlay ==
    (Exited /\ writes = 1) =>
        /\ \A k \in Keys :
              IF \E r \in {"config", "settings", "styles"} : Defines(Loaded(r), k)
              THEN {p \in FilePairs(outFile) : p.k = k}
                       = {[k |-> k, v |-> ValueOf(Loaded(LastDefining(k)).doc, k)]}
              ELSE {p \in FilePairs(outFile) : p.k = k} = {}
        /\ \A p \in FilePairs(outFile) : p.k \in Keys
        /\ Cardinality(FilePairs(outFile))
               = Len(outFile.bytes) - (IF Len(outFile.bytes) = 1 THEN 1 ELSE 2)

\* witness of C3: a written document in which a later fragment replaced the
\* value an earlier one gave to the same key, next to a key of one fragment only
C3_Witness ==
    /\ Exited /\ writes = 1
    /\ \E k \in Keys :
          /\ Defines(config, k) /\ Defines(styles, k)
          /\ ValueOf(config.doc, k) # ValueOf(styles.doc, k)
    /\ \E k \in Keys : Defines(settings, k) /\ ~Defines(config, k) /\ ~Defines(styles, k)

\* C4: src/theme-json exists and none of the six fragment files does: the
\* compiler prints the error, exits with a failure status and writes nothing.
C4_NoFragmentsIsAnError ==
    (Exited /\ dirExists /\ files = NoFragments) =>
        /\ exitCode = 1
        /\ Printed("stderr", "No theme.json source files found")
        /\ OutputUntouched

\* witness of C4: such a run has ended, with a theme.json already in place
C4_Witness ==
    Exited /\ dirExists /\ files = NoFragments /\ outBefore = StaleFile

\* C5: src/theme-json does not exist: no fragment load is attempted, nothing
\* is written (an existing theme.json stays as it is) and the exit status is
\* success.
C5_MissingDirectoryIsNoOp ==
    (Exited /\ ~dirExists) =>
        /\ imported = <<>>
        /\ OutputUntouched
        /\ exitCode = 0

\* witness of C5: a run without the directory has ended next to an existing theme.json
C5_Witness ==
    Exited /\ ~dirExists /\ outFile = StaleFile /\ run = 1

\* fs has no styles fragment at all
StylesOmitted(fs) == fs["styles"][".mjs"] = Absent /\ fs["styles"][".js"] = Absent

\* the styles fragment of fs is a file whose default export is {}
StylesEmpty(fs) == fs["styles"][".mjs"] = Exports(<<>>) /\ fs["styles"][".js"] = Absent

\* f and g have the same config and settings fragments; one omits the styles
\* fragment and the other has the empty one
OmittedVersusEmpty(f, g) ==
    /\ f["config"] = g["config"]
    /\ f["settings"] = g["settings"]
    /\ \/ StylesOmitted(f) /\ StylesEmpty(g)
       \/ StylesEmpty(f) /\ StylesOmitted(g)

\* this run and the previous one ended alike: same status, same document written
SameOutcomeAsPrev ==
    /\ exitCode = prev.exitCode
    /\ writes = prev.writes
    /\ writes = 1 => outFile = prev.out

\* C6 as stated: for every state of config and settings, omitting the styles
\* fragment gives the same outcome as a styles fragment exporting {}.
C6_AbsenceTransparency_Original ==
    (Exited /\ prev.valid /\ OmittedVersusEmpty(prev.files, files)) =>
        SameOutcomeAsPrev

\* C6, amended: if at least one of config and settings loads, omitting the
\* styles fragment gives the same outcome as a styles fragment exporting {};
\* if neither loads, the run without styles fails and writes nothing while
\* the run with the empty styles fragment succeeds and writes {}.
C6_AbsenceTransparency ==
    (Exited /\ prev.valid /\ OmittedVersusEmpty(prev.files, files)) =>
        IF ~config.isNull \/ ~settings.isNull
        THEN SameOutcomeAsPrev
        ELSE /\ exitCode # prev.exitCode
             /\ StylesOmitted(files) => (exitCode = 1 /\ writes = 0 /\ prev.writes = 1)
             /\ StylesEmpty(files) =>
                    (exitCode = 0 /\ writes = 1 /\ prev.writes = 0
                       /\ outFile.bytes = <<Line(0, "{}", "", 0)>>)

\* witness of C6: the two runs, with a config fragment and a settings
\* fragment that both loaded and wrote a document
C6_Witness ==
    /\ Exited /\ prev.valid /\ OmittedVersusEmpty(prev.files, files)
    /\ ~config.isNull /\ ~settings.isNull
    /\ writes = 1 /\ prev.writes = 1
    /\ Len(outFile.bytes) > 1

\* C7: a second run with unchanged fragments leaves a theme.json that is
\* byte-identical to the one the first run wrote.
C7_Idempotent ==
    (Exited /\ prev.valid /\ prev.files = files /\ prev.writes = 1) =>
        (writes = 1 /\ outFile = prev.out)

\* witness of C7: the second of two runs over the same fragments has written
\* a document with at least one key
C7_Witness ==
    /\ Exited /\ prev.valid /\ prev.files = files /\ prev.writes = 1
    /\ run = 2 /\ writes = 1
    /\ Len(outFile.bytes) > 1

\* the position of a role in the order of the loads
RoleIndex(role) == CHOOSE i \in 1..Len(Roles) : Roles[i] = role

\* the run printed the success message
Succeeded == Printed("stdout", "theme.json compiled successfully")

\* what holds of the loads and the write in every state of a run
LoadsThenOneWrite ==
    /\ \A i, j \in 1..Len(imported) :
          i < j => RoleIndex(imported[i].role) < RoleIndex(imported[j].role)
    /\ \A i \in 1..Len(imported) :
          /\ imported[i].role = "config" => pc \notin {"start", "importConfig"}
          /\ imported[i].role = "settings" =>
                pc \notin {"start", "importConfig", "importSettings"}
          /\ imported[i].role = "styles" => pc \in {"merge", "exited"}
    /\ writes <= 1
    /\ writes = 1 => pc = "exited"
    /\ Succeeded => writes = 1

\* what holds of every step of a run: a load is the step of its role and
\* hands over to the next one, the file is written and the success message
\* printed only by the step that follows the load of styles
LoadAndWriteSteps ==
    /\ (pc' # "start" /\ imported' # imported) =>
          /\ pc \in {"importConfig", "importSettings", "importStyles"}
          /\ \A i \in (Len(imported) + 1)..Len(imported') :
                pc = "import" \o
                     (CASE imported'[i].role = "config" -> "Config"
                        [] imported'[i].role = "settings" -> "Settings"
                        [] imported'[i].role = "styles" -> "Styles")
    /\ pc = "importConfig" => pc' = "importSettings"
    /\ pc = "importSettings" => pc' = "importStyles"
    /\ pc = "importStyles" => pc' = "merge"
    /\ (outFile' # outFile \/ writes' > writes) =>
          (pc = "merge" /\ pc' = "exited" /\ writes' = writes + 1)
    /\ (Succeeded' /\ ~Succeeded) => writes' = 1

\* C22: in one run the three fragments are loaded one after another in the
\* order config, settings, styles; theme.json is written at most once and only
\* after the three loads, and the success message comes only with that write.
C22_SequentialLoadsOneWrite ==
    [](LoadsThenOneWrite) /\ [][LoadAndWriteSteps]_vars

\* witness of C22: a run has loaded a file for each of the three roles and
\* then written theme.json and printed the success message
C22_Witness ==
    /\ Exited /\ Len(imported) = 3 /\ writes = 1 /\ Succeeded
    /\ outFile # outBefore

\* the files a run has loaded for a role
ImportedFor(role) == SelectSeq(imported, LAMBDA f : f.role = role)

\* the load of the role is behind the run
LoadDone(role) ==
    /\ dirExists
    /\ pc \in (CASE role = "config"   -> {"importSettings", "importStyles", "merge", "exited"}
                 [] role = "settings" -> {"importStyles", "merge", "exited"}
                 [] role = "styles"   -> {"merge", "exited"})

\* C23: for each role at most one file is loaded: the .mjs file when it
\* exists, otherwise the .js file when it exists; the .js file is never loaded
\* when the .mjs file exists, also when loading the .mjs file fails.
C23_OneFilePerRole ==
    \A role \in {"config", "settings", "styles"} :
        LET mine == ImportedFor(role)
        IN  /\ Len(mine) <= 1
            /\ \A i \in 1..Len(mine) : files[role][mine[i].ext] # Absent
            /\ files[role][".mjs"] # Absent =>
                  \A i \in 1..Len(mine) : mine[i].ext = ".mjs"
            /\ LoadDone(role) =>
                  /\ files[role][".mjs"] # Absent => mine = <<filePath(role, ".mjs")>>
                  /\ (files[role][".mjs"] = Absent /\ files[role][".js"] # Absent) =>
                        mine = <<filePath(role, ".js")>>
                  /\ (files[role][".mjs"] = Absent /\ files[role][".js"] = Absent) =>
                        mine = <<>>

\* witness of C23: the .mjs file of a role failed to load while a loadable
\* .js file of the role exists, and the run ended having loaded the .mjs
\* file alone for that role
C23_Witness ==
    /\ Exited /\ dirExists
    /\ files["config"][".mjs"] = Throws
    /\ files["config"][".js"] \notin {Absent, Throws}
    /\ ImportedFor("config") = <<filePath("config", ".mjs")>>
    /\ ImportedFor("settings") = <<filePath("settings", ".js")>>

\* neither file of the role exists
NoFileFor(role) == files[role][".mjs"] = Absent /\ files[role][".js"] = Absent

\* the file tryImport takes for the role has no default export
FirstFileHasNoDefault(role) ==
    \/ files[role][".mjs"] = NoDefault
    \/ files[role][".mjs"] = Absent /\ files[role][".js"] = NoDefault

\* C24: a file that loads without a default export resolves to the empty
\* mapping and counts as present, so a directory whose only fragment is such
\* a file compiles to {} with success; only a role with neither file resolves
\* to absent.
C24_AbsentIsNotEmpty ==
    \A role \in {"config", "settings", "styles"} :
        LoadDone(role) =>
            /\ FirstFileHasNoDefault(role) => Loaded(role) = JsObject(<<>>)
            /\ Loaded(role).isNull => NoFileFor(role)
            /\ (Exited /\ FirstFileHasNoDefault(role)
                  /\ \A other \in {"config", "settings", "styles"} \ {role} : NoFileFor(other)) =>
                  (exitCode = 0 /\ writes = 1 /\ theme = <<>> /\ Succeeded)

(***************************************************************************)
(* Properties of the configuration composer.                               *)
(***************************************************************************)
\* createConfig has returned
Returned == configs # <<>>

\* the first (blocks) and the second (theme) configuration of the result
BlocksResult == configs[1]
ThemeResult == configs[2]

\* C8: the theme configuration's entry mapping is exactly the caller's
\* themeEntryPoints, with no entry of the base configuration, also when
\* themeEntryPoints is empty; the blocks configuration keeps the base's
\* entries and gets no declared entry.
C8_EntryPointSeparation ==
    Returned =>
        /\ ThemeResult.entry = Some(Default(callOptions.themeEntryPoints, <<>>))
        /\ BlocksResult.entry = defaultConfig.entry

\* witness of C8: a call with empty themeEntryPoints over a base that has
\* discovered entries
C8_Witness ==
    /\ Returned
    /\ Default(callOptions.themeEntryPoints, <<>>) = <<>>
    /\ Len(defaultConfig.entry[1]) = 2

\* the base's plugins without the CopyWebpackPlugin instances, in their order
WithoutCopyPlugins(plugins) ==
    SelectSeq(plugins, LAMBDA pl : pl # "CopyWebpackPlugin")

\* C9: whatever the number of CopyWebpackPlugin instances in the base's
\* plugin list, the theme configuration's plugin list is the base list
\* without them, in the original order, followed by one
\* RemoveEmptyScriptsPlugin as the last element.
C9_ThemePlugins ==
    Returned =>
        ThemeResult.plugins
            = Some(WithoutCopyPlugins(defaultConfig.plugins[1]) \o <<"RemoveEmptyScriptsPlugin">>)

\* witness of C9: a base list with several CopyWebpackPlugin instances around
\* another plugin
C9_Witness ==
    /\ Returned
    /\ \E i, j, k \in 1..Len(defaultConfig.plugins[1]) :
          /\ i < j /\ j < k
          /\ defaultConfig.plugins[1][i] = "CopyWebpackPlugin"
          /\ defaultConfig.plugins[1][j] # "CopyWebpackPlugin"
          /\ defaultConfig.plugins[1][k] = "CopyWebpackPlugin"

\* the rules of a configuration for .scss and .sass files
StyleRules(cfg) ==
    {cfg.rules[1][i] :
        i \in {n \in 1..Len(cfg.rules[1]) :
                  cfg.rules[1][n].test = styleTest /\ cfg.rules[1][n].use # None}}

\* the options of the sass-loader steps of the style rules of a configuration
SassLoaderOptions(cfg) ==
    UNION {{r.use[1][j].options :
               j \in {m \in 1..Len(r.use[1]) : r.use[1][m].loader = "sass-loader"}} :
           r \in StyleRules(cfg)}

\* C10: without a sassCompiler from the caller of createConfig neither
\* configuration carries an implementation in the sass-loader options; with
\* one, both configurations carry it.
C10_CompilerSelection ==
    Returned =>
        \A cfg \in {BlocksResult, ThemeResult} :
            /\ SassLoaderOptions(cfg) # {}
            /\ \A op \in SassLoaderOptions(cfg) : op.implementation = callOptions.sassCompiler

\* a second call with the same base and options has returned
CalledTwice == prevConfigs # <<>>

\* C11: the composer is pure and deterministic: two calls with equal base and
\* options return deep-equal pairs of configurations whatever the working
\* directory of the process is, and a call asks nothing of the file system
\* or of the process.
C11_PureAndDeterministic ==
    /\ CalledTwice => configs = prevConfigs
    /\ Returned => interactions = {}

\* C12: without a statsConfig from the caller the stats directive of both
\* returned configurations is { preset: 'errors-warnings', colors: true };
\* with one, both configurations carry exactly the caller's value, in place
\* of the base's.
C12_StatsDirective ==
    Returned =>
        \A cfg \in {BlocksResult, ThemeResult} :
            cfg.stats = (IF callOptions.statsConfig = None
                         THEN Some([preset |-> "errors-warnings", colors |-> TRUE])
                         ELSE callOptions.statsConfig)

\* witness of C12: a call without statsConfig over a base that has a stats
\* directive of its own
C12_Witness ==
    /\ Returned
    /\ callOptions.statsConfig = None
    /\ defaultConfig.stats # None
    /\ defaultConfig.stats # BlocksResult.stats

\* C13: without a themeCleanKeepPattern from the caller of createConfig the
\* theme configuration's cleanup keeps exactly the subpaths that start with
\* fonts/, images/ or blocks/; with a pattern from the caller of the
\* createConfig that forwards the option, that pattern is used instead; the
\* blocks configuration gets no cleanup directive.
C13_CleanKeepPattern ==
    Returned =>
        /\ callOptions.themeCleanKeepPattern = None =>
               kept(ThemeResult)
                   = {sp \in Subpaths :
                         Len(sp) >= 2 /\ Head(sp) \in {"fonts", "images", "blocks"}}
        /\ (callOptions.themeCleanKeepPattern # None /\ calledModule = "part_008") =>
               ThemeResult.output[1].clean = callOptions.themeCleanKeepPattern
        /\ BlocksResult.output = defaultConfig.output
        /\ BlocksResult.output[1].clean = None

\* witness of C13: the createConfig that forwards the option was called
\* without a pattern, and the build keeps blocks/ and drops css/
C13_Witness ==
    /\ Returned
    /\ calledModule = "part_008"
    /\ callOptions.themeCleanKeepPattern = None
    /\ <<"blocks", "hero", "index.js">> \in kept(ThemeResult)
    /\ <<"css", "theme.css">> \notin kept(ThemeResult)

\* the keys of an object
KeysOf(obj) == {obj[i].k : i \in 1..Len(obj)}

\* the sassOptions that reach the sass-loader steps of the two results
PassedSassOptions ==
    {op.sassOptions : op \in SassLoaderOptions(BlocksResult) \cup SassLoaderOptions(ThemeResult)}

\* C14: the style-options bundle createConfig passes on is the default bundle
\* overlaid with the caller's sassOptions (the caller's value wins for every
\* key other than loadPaths), and its loadPaths is the five default load
\* paths in their order followed by the caller's loadPaths in order; a
\* loadPaths key inside sassOptions has no effect.
C14_StyleOptionsBundle ==
    Returned =>
        /\ PassedSassOptions # {}
        /\ \A passed \in PassedSassOptions :
              /\ passed # None
              /\ LET bundle == passed[1]
                     given  == Default(callOptions.sassOptions, <<>>)
                 IN  /\ KeysOf(bundle) = KeysOf(defaultSassOptions) \cup KeysOf(given)
                     /\ Cardinality(KeysOf(bundle)) = Len(bundle)
                     /\ ValueOf(bundle, "loadPaths")
                            = <<".", "./node_modules", "./node_modules/normalize-scss/sass",
                                "./node_modules/mathsass/dist/",
                                "./node_modules/@bostonuniversity">>
                              \o Default(callOptions.loadPaths, <<>>)
                     /\ \A k \in KeysOf(given) \ {"loadPaths"} :
                            ValueOf(bundle, k) = ValueOf(given, k)
                     /\ \A k \in KeysOf(defaultSassOptions) \ (KeysOf(given) \cup {"loadPaths"}) :
                            ValueOf(bundle, k) = ValueOf(defaultSassOptions, k)

\* witness of C14: the caller gave loadPaths and sassOptions that redefine a
\* default key and carry a loadPaths key of their own
C14_Witness ==
    /\ Returned
    /\ callOptions.loadPaths # None
    /\ callOptions.sassOptions # None
    /\ {"loadPaths", "quietDeps"} \subseteq KeysOf(callOptions.sassOptions[1])
    /\ ValueOf(callOptions.sassOptions[1], "quietDeps")
           # ValueOf(defaultSassOptions, "quietDeps")

\* the places of a loader in the steps of a rule
StepsOf(rule, loader) == {j \in 1..Len(rule.use[1]) : rule.use[1][j].loader = loader}

\* C25: the rule for style files the composer gives to the theme
\* configuration is the one it gives to the blocks configuration: the same
\* test, the css-loader step and then the sass-loader step, with equal options
\* (source maps on, the same sassOptions, the same implementation if any).
C25_SameStyleRule ==
    Returned =>
        /\ StyleRules(ThemeResult) = StyleRules(BlocksResult)
        /\ Cardinality(StyleRules(ThemeResult)) = 1
        /\ \A rule \in StyleRules(ThemeResult) \cup StyleRules(BlocksResult) :
              /\ Cardinality(StepsOf(rule, "css-loader")) = 1
              /\ Cardinality(StepsOf(rule, "sass-loader")) = 1
              /\ \A c \in StepsOf(rule, "css-loader"), sa \in StepsOf(rule, "sass-loader") :
                    /\ c < sa
                    /\ rule.use[1][c].options.sourceMap = Some(TRUE)
                    /\ rule.use[1][sa].options.sourceMap = Some(TRUE)
                    /\ rule.use[1][sa].options.sassOptions # None
        /\ {op.sassOptions : op \in SassLoaderOptions(ThemeResult)}
               = {op.sassOptions : op \in SassLoaderOptions(BlocksResult)}
        /\ {op.implementation : op \in SassLoaderOptions(ThemeResult)}
               = {op.implementation : op \in SassLoaderOptions(BlocksResult)}

\* witness of C25: the caller chose a compiler and gave sassOptions, and the
\* base has no rule for style files, so that each result holds the rule as
\* the composer wrote it
C25_Witness ==
    /\ Returned
    /\ callOptions.sassCompiler = Some("sass")
    /\ callOptions.sassOptions # None
    /\ StyleRules(defaultConfig) = {}
    /\ \E rule \in StyleRules(ThemeResult) :
          /\ Len(rule.use[1]) = 2
          /\ rule.use[1][2].options.implementation = Some("sass")

\* C26: the blocks configuration has the entry points and the plugin list of
\* the base (the copying plugins kept, no RemoveEmptyScriptsPlugin added) and
\* sets no output path and no clean directive; only devtool, the loader
\* search path, the module rules and stats differ from the base.
C26_BlocksKeepsBase ==
    Returned =>
        /\ BlocksResult.entry = defaultConfig.entry
        /\ BlocksResult.plugins = defaultConfig.plugins
        /\ \A i \in 1..Len(BlocksResult.plugins[1]) :
              BlocksResult.plugins[1][i] # "RemoveEmptyScriptsPlugin"
        /\ BlocksResult.output = defaultConfig.output
        /\ BlocksResult.output[1].clean = None
        /\ BlocksResult.devtool = Some("source-map")
        /\ BlocksResult.resolveLoaderModules = Some(toolkitLoaderModules)
        /\ BlocksResult.rules # defaultConfig.rules

\* witness of C26: the base has entry points and a CopyWebpackPlugin, and the
\* theme configuration of the same call has replaced both
C26_Witness ==
    /\ Returned
    /\ Len(defaultConfig.entry[1]) = 2
    /\ \E i \in 1..Len(defaultConfig.plugins[1]) :
          defaultConfig.plugins[1][i] = "CopyWebpackPlugin"
    /\ callOptions.themeEntryPoints # None
    /\ ThemeResult.entry # BlocksResult.entry
    /\ ThemeResult.plugins # BlocksResult.plugins
    /\ ThemeResult.output # BlocksResult.output

\* the loaders of the steps of a rule, in order
LoadersOf(rule) == [j \in 1..Len(rule.use[1]) |-> rule.use[1][j].loader]

\* the places of the rules of a list with the given test
RulesWithTest(rules, t) == {n \in 1..Len(rules) : rules[n].test = t}

\* C27: in the rule list of the blocks configuration every rule of the base
\* keeps its place (the rule with the style test gets the two style steps
\* merged into its chain, every other rule is unchanged); the babel-loader rule
\* for the @bostonuniversity packages is there exactly once, after all rules of
\* the base, when no rule of the base has its test; a rule of the override that
\* matches no rule of the base is appended, never dropped.
C27_BlocksRuleList ==
    Returned =>
        LET base   == defaultConfig.rules[1]
            result == BlocksResult.rules[1]
        IN  /\ Len(result) >= Len(base)
            /\ \A i \in 1..Len(base) :
                  /\ result[i].test = base[i].test
                  /\ base[i].test # styleTest => result[i] = base[i]
                  /\ base[i].test = styleTest =>
                        /\ LoadersOf(result[i]) = LoadersOf(base[i])
                        /\ \A j \in StepsOf(result[i], "css-loader") \cup StepsOf(result[i], "sass-loader") :
                              result[i].use[1][j].options.sourceMap = Some(TRUE)
                        /\ \A j \in StepsOf(result[i], "sass-loader") :
                              result[i].use[1][j].options.sassOptions # None
                        /\ \A j \in 1..Len(base[i].use[1]) :
                              base[i].use[1][j].loader \notin {"css-loader", "sass-loader"} =>
                                  result[i].use[1][j] = base[i].use[1][j]
                        /\ [result[i] EXCEPT !.use = base[i].use] = base[i]
            /\ RulesWithTest(base, bostonuniversityTest) = {} =>
                  /\ Cardinality(RulesWithTest(result, bostonuniversityTest)) = 1
                  /\ \A n \in RulesWithTest(result, bostonuniversityTest) :
                        n > Len(base) /\ result[n] = bostonuniversityRule
            /\ RulesWithTest(base, styleTest) = {} =>
                  /\ Cardinality(RulesWithTest(result, styleTest)) = 1
                  /\ \A n \in RulesWithTest(result, styleTest) :
                        /\ n > Len(base)
                        /\ LoadersOf(result[n]) = <<"css-loader", "sass-loader">>
            /\ Len(result) = Len(base) + 1
                   + (IF RulesWithTest(base, styleTest) = {} THEN 1 ELSE 0)

\* witness of C27: the base has a rule for style files with four steps, which
\* the result holds at the same place with source maps on, and the
\* @bostonuniversity rule is the last rule of the result
C27_Witness ==
    /\ Returned
    /\ defaultConfig.rules[1] = <<wpScriptRule, wpStyleRule>>
    /\ Len(BlocksResult.rules[1]) = 3
    /\ BlocksResult.rules[1][1] = wpScriptRule
    /\ BlocksResult.rules[1][2] # wpStyleRule
    /\ Len(BlocksResult.rules[1][2].use[1]) = 4
    /\ BlocksResult.rules[1][3] = bostonuniversityRule

\* the bu-build process has ended
CliExited == cliPc = "exited"

\* no child process ended with a status other than 0 or failed to start
NoChildFailed ==
    /\ \A i \in 1..Len(spawned) : spawned[i].state \notin {"failed", "error"}
    /\ \A i \in 1..Len(events) : events[i].type # "error"

\* the tasks of the child processes, in the order they were started
TasksRun == [i \in 1..Len(spawned) |-> spawned[i].task]

\* the task has run and ended with status 0
RanToEnd(task) ==
    \E i \in 1..Len(spawned) : spawned[i].task = task /\ spawned[i].state = "ok"

\* C15: for every combination of the four probes, the steps `build` runs are
\* the subsequence of [build:theme-json, build:theme, build:scripts,
\* build:i18n, build:version] that has build:scripts once and each optional
\* step exactly when its probe holds; a step starts only after the previous
\* one has ended successfully.
C15_BuildPipeline ==
    command = Some("build") =>
        /\ \A i \in 1..Len(spawned) :
              spawned[i].state = "running" \/ i < Len(spawned) =>
                  \A j \in 1..(i - 1) : spawned[j].state = "ok"
        /\ (CliExited /\ NoChildFailed) =>
              TasksRun
                 = (IF themeJsonSrcDir THEN <<"build:theme-json">> ELSE <<>>)
                   \o (IF hasScript(themePackage, "build:theme") THEN <<"build:theme">> ELSE <<>>)
                   \o <<"build:scripts">>
                   \o (IF hasScript(themePackage, "build:i18n") THEN <<"build:i18n">> ELSE <<>>)
                   \o (IF hasScript(themePackage, "build:version")
                       THEN <<"build:version">> ELSE <<>>)

\* C16: when src/theme-json exists, `bu-build build` compiles theme.json even
\* if the theme's package.json has no build:theme-json script.
C16_ThemeJsonAutomatic ==
    (/\ command = Some("build")
     /\ themeJsonSrcDir
     /\ hasScript(themePackage, "build:scripts")
     /\ CliExited
     /\ NoChildFailed) =>
        RanToEnd("build:theme-json")

\* C17: `lint` includes lint:php if and only if the theme's package.json has
\* a lint:php script; without it, lint runs the CSS, JavaScript, Markdown and
\* package.json linters only and succeeds when those four pass.
C17_LintPhpOptional ==
    (/\ command = Some("lint")
     /\ \A name \in {"lint:css", "lint:js", "lint:md", "lint:pkg"} : hasScript(themePackage, name)
     /\ CliExited
     /\ NoChildFailed) =>
        /\ (\E i \in 1..Len(spawned) : spawned[i].task = "lint:php")
              <=> hasScript(themePackage, "lint:php")
        /\ ~hasScript(themePackage, "lint:php") =>
              /\ TasksRun = <<"lint:css", "lint:js", "lint:md", "lint:pkg">>
              /\ status = 0

\* the sequence ends with the given arguments
EndsWith(childArgs, given) ==
    /\ Len(childArgs) >= Len(given)
    /\ SubSeq(childArgs, Len(childArgs) - Len(given) + 1, Len(childArgs)) = given

\* C18: the additional arguments given to `build` and to `start` reach the
\* webpack step (build:scripts, watch:scripts) in every detected
\* configuration, alone or with other steps or watchers.
C18_ArgsReachWebpack ==
    command \in {Some("build"), Some("start")} =>
        \A i \in 1..Len(spawned) :
            spawned[i].task \in {"build:scripts", "watch:scripts"} =>
                EndsWith(spawned[i].args, args)

\* C19: for every command string that is neither a registered command name
\* nor a help request, the CLI prints the unknown-command error, calls no
\* handler and exits with status 1.
C19_UnknownCommand ==
    (~helpRequested(command) /\ command[1] \notin commands) =>
        /\ handler = None
        /\ CliExited =>
              /\ status = 1
              /\ \E i \in 1..Len(stderr) : stderr[i] = "Unknown command"

\* C20: if the promise of the routed handler rejects, the CLI reports the
\* error and exits with status 1; the process ends with status 0 only if
\* the handler completed without error or help was shown.
C20_ExitStatusReflectsHandler ==
    CliExited =>
        /\ outcome = "rejected" =>
              /\ status = 1
              /\ \E i \in 1..Len(stderr) : stderr[i] = "Error running command"
        /\ status = 0 => outcome \in {"resolved", "help"}

\* witness of C20: a step of a pipeline ended with a status other than 0,
\* the handler's promise rejected and the process has ended
C20_Witness ==
    /\ CliExited
    /\ outcome = "rejected"
    /\ ~NoChildFailed
    /\ handler # None
    /\ handler[1].kind = "handler"

\* the number of processes of the tree that have displayed the header
HeadersDisplayed ==
    (IF header = "displayed" THEN 1 ELSE 0)
    + Cardinality({i \in 1..Len(spawned) : spawned[i].header = "displayed"})

\* the bu-build processes that scripts of the theme have started
Nested == {i \in 1..Len(spawned) : spawned[i].header # "none"}

\* C21: in the process tree of one bu-build invocation started without
\* BU_BUILD_HEADER_SHOWN the header is displayed exactly once, by the
\* top-level process and before any handler runs; every nested bu-build
\* process, started in sequence or in parallel, sees the flag and displays no
\* header.
C21_HeaderOncePerSession ==
    inheritedEnv = None =>
        /\ cliPc = "header" => (HeadersDisplayed = 0 /\ handler = None /\ spawned = <<>>)
        /\ cliPc # "header" => (header = "displayed" /\ HeadersDisplayed = 1)
        /\ (handler # None \/ spawned # <<>> \/ promise # "none") => header = "displayed"
        /\ \A i \in Nested :
              /\ spawned[i].env = Some("true")
              /\ spawned[i].header # "displayed"

\* witness of C21: two nested bu-build processes run in parallel, both have
\* passed the header check of their main(), and the session was started
\* without the flag
C21_Witness ==
    /\ inheritedEnv = None
    /\ parallel
    /\ Cardinality({i \in Nested : spawned[i].state = "running"
                                     /\ spawned[i].header = "skipped"}) = 2
    /\ HeadersDisplayed = 1

\* the first event of the child of runCommand is a close with code 0
ClosedWithZero == events # <<>> /\ events[1] = Event("close", Some(0))

\* what holds of the promise of runCommand in every state
PromiseFollowsChild ==
    promise # "none" =>
        /\ promise = "pending" <=> events = <<>>
        /\ promise = "resolved" <=> ClosedWithZero
        /\ promise = "rejected" <=> (events # <<>> /\ ~ClosedWithZero)
        /\ promise = "resolved" =>
              \A i \in 1..Len(events) : events[i] = Event("close", Some(0))
        /\ (\E i \in 1..Len(events) :
               events[i].type = "error" \/ events[i].code # Some(0)) => promise = "rejected"

\* what holds of every step: a settled promise stays as it is
SettledOnce == promise \in {"resolved", "rejected"} => promise' = promise

\* C28: the promise of runCommand resolves if and only if the child closes
\* with code 0; it rejects when the child closes with another code (null
\* after a signal included) or when the spawn raises an error; it is settled
\* once, also when a close event follows an error event.
C28_RunCommandPromise ==
    [](PromiseFollowsChild) /\ [][SettledOnce]_vars

\* witness of C28: the spawn raised an error, the close event followed, and
\* the promise is rejected
C28_Witness ==
    /\ Len(events) = 2
    /\ events[1].type = "error"
    /\ events[2].type = "close"
    /\ promise = "rejected"
    /\ CliExited

\* C29: a failure of the wp-scripts process run through runWpScriptsFiltered
\* is propagated: when wp-scripts ends with a status other than 0 the promise
\* rejects, and `bu-build build:scripts` exits with status 1.
C29_WpScriptsFailurePropagates ==
    (/\ command \in {Some("build:scripts"), Some("watch:scripts")}
     /\ CliExited
     /\ \E i \in 1..Len(spawned) :
           spawned[i].via = "wp-scripts" /\ spawned[i].state = "failed") =>
        (promise = "rejected" /\ status = 1)

\* the version update has ended with status 0 at least once
VersionUpdated == versionPc = "exited" /\ versionStatus = 0 /\ versionRun >= 1

\* C30: after any number of successful runs of the version update with the
\* same package.json, style.css is exactly the generated header and
\* build/css/theme.css is one copy of the header followed by its original
\* content; a file that does not exist is skipped without error and is not
\* created.
C30_VersionUpdateIdempotent ==
    VersionUpdated =>
        /\ styleCss = (IF originalStyleCss = None THEN None
                       ELSE Some(generateCssHeader(packageJson.info)))
        /\ themeCss = (IF originalThemeCss = None THEN None
                       ELSE Some(generateCssHeader(packageJson.info) \o originalThemeCss[1]))

====
